---- MODULE Spec2Model ----
(***************************************************************************)
(* Playback synchronisation and drawing activation of the tutoring client: *)
(* the Conversation Orchestrator (SpeechRecognition.tsx, first component   *)
(* of the file), the Drawing-Activation Registry (TTSProvider, in its two  *)
(* drawing-aware variants), the speech duration estimator, the prompt      *)
(* path of the whiteboard (Whiteboard.tsx), the subtitle reveal           *)
(* (SubtitleDisplay) and the answer check (AnswerValidator and the typed   *)
(* chat path of App).                                                      *)
(*                                                                         *)
(* Time is in milliseconds.  A text is a sequence of tokens: "w" is one    *)
(* word character, " " one whitespace character, "." and "," punctuation,  *)
(* and a token "[DRAW:<id>]" is one whole placement marker.                 *)
(***************************************************************************)
EXTENDS Integers, Sequences, FiniteSets, TLC

\* ------------------------------------------------------------------ bounds

\* capture sessions (startRecordingInternal calls) in one behaviour
MaxStarts == 2
\* tutor responses (greeting or speech response) applied in one behaviour
MaxTurns == 2
\* length of activeDrawingIds explored by the Registry specification
MaxActive == 2
\* length of a drawing list passed to setDrawings in the Registry specification
MaxDrawings == 2

\* ------------------------------------------------------- program constants

MS_PER_WORD == 400
PAUSE_FOR_PERIOD == 300
PAUSE_FOR_COMMA == 150
MINIMUM_DURATION == 1000
GreetingBuffer == 500
ResponseBuffer == 1000

\* ------------------------------------------------------------ small helpers

Includes(s, x) == \E i \in 1..Len(s) : s[i] = x

Min(S) == CHOOSE x \in S : \A y \in S : x <= y

Max2(a, b) == IF a >= b THEN a ELSE b

RECURSIVE SumSeq(_)
SumSeq(s) == IF s = <<>> THEN 0 ELSE Head(s) + SumSeq(Tail(s))

\* ------------------------------------------------------------------- texts

MarkerIds == {"a1", "a2"}

MarkerToken(id) == "[DRAW:" \o id \o "]"

MarkerTokens == {MarkerToken(id) : id \in MarkerIds}

IsMarker(tok) == tok \in MarkerTokens

MarkerIdOf(tok) == CHOOSE id \in MarkerIds : MarkerToken(id) = tok

\* number of characters of a token: "[DRAW:" is 6, the two-letter id 2, "]" 1
TokLen(tok) == IF IsMarker(tok) THEN 9 ELSE 1

TextLen(t) == SumSeq([i \in 1..Len(t) |-> TokLen(t[i])])

\* a token made of non-whitespace characters
IsInk(tok) == tok # " "

\* text.trim().split(/\s+/).length: the maximal runs of non-whitespace of the
\* text; the trimmed text of a whitespace-only text is "", which splits to [""]
WordCount(t) ==
    LET starts == {i \in 1..Len(t) : IsInk(t[i]) /\ (i = 1 \/ ~IsInk(t[i-1]))}
    IN  IF starts = {} THEN 1 ELSE Cardinality(starts)

CountTok(t, tok) == Cardinality({i \in 1..Len(t) : t[i] = tok})

\* a faulty estimator that forgets Math.max(duration, MINIMUM_DURATION)
EstimateWithoutMinimum(t) ==
    IF t = <<>> THEN 0
    ELSE WordCount(t) * MS_PER_WORD
            + CountTok(t, ".") * PAUSE_FOR_PERIOD
            + CountTok(t, ",") * PAUSE_FOR_COMMA

estimateSpeechDuration(t) ==
    IF t = <<>> THEN 0
    ELSE Max2(WordCount(t) * MS_PER_WORD
                + CountTok(t, ".") * PAUSE_FOR_PERIOD
                + CountTok(t, ",") * PAUSE_FOR_COMMA,
              MINIMUM_DURATION)

\* explanation.replace(/\[DRAW:([^\]]+)\]/g, '')
StripMarkers(t) == SelectSeq(t, LAMBDA tok : ~IsMarker(tok))

\* match.index of the marker at token i: the characters before it
MarkerPosition(t, i) == TextLen(SubSeq(t, 1, i - 1))

\* the regex.exec loop: one {id, position} per marker, in text order
ExtractMarkers(t) ==
    LET idx == SelectSeq([i \in 1..Len(t) |-> i], LAMBDA i : IsMarker(t[i]))
    IN  [k \in 1..Len(idx) |->
            [id |-> MarkerIdOf(t[idx[k]]), position |-> MarkerPosition(t, idx[k])]]

\* ---------------------------------------------------------------- Registry

\* The two TTSProvider variants that hold drawings: "ctx" assigns fallback ids
\* and refuses duplicates, "plain" stores and appends what it is given.
RegistryVariants == {"ctx", "plain"}

\* a DrawingInstruction: its id ("" when the collaborator sent none, which
\* !drawing.id treats like an empty id) and its type
Drawing(id, type) == [id |-> id, type |-> type]

AutoPrefixes == {"auto-id-", "ctx-auto-id-"}

\* `ctx-auto-id-${index}`, index counted from 0
CtxAutoId(index) == "ctx-auto-id-" \o ToString(index)

\* `auto-id-${index}`: the id the auto-id variant of processAudio gives a
\* drawing without one before it calls setDrawings
AutoId(index) == "auto-id-" \o ToString(index)

\* id.startsWith('auto-id-') || id.startsWith('ctx-auto-id-'), over the ids of
\* the model: a prefix followed by a suffix without "-"
AutoSuffixes == {"0", "1", "2", "x"}

IsAutoForm(id) == \E p \in AutoPrefixes, s \in AutoSuffixes : id = p \o s

\* parseInt(id.split('-').pop() || '-1', 10); NaN is -1 here, both fail index >= 0
ParseSuffix(id) ==
    IF \E p \in AutoPrefixes, n \in 0..2 : id = p \o ToString(n)
    THEN CHOOSE n \in 0..2 : \E p \in AutoPrefixes : id = p \o ToString(n)
    ELSE -1

\* newDrawings.map((drawing, index) => ...) of handleSetDrawings
ProcessedDrawings(variant, newDrawings) ==
    IF variant = "ctx"
    THEN [i \in 1..Len(newDrawings) |->
            IF newDrawings[i].id = ""
            THEN [newDrawings[i] EXCEPT !.id = CtxAutoId(i - 1)]
            ELSE newDrawings[i]]
    ELSE newDrawings

\* the id activateDrawing records: `seen` is the drawings array of the render
\* whose activateDrawing closure is called
ActivationTarget(variant, id, seen) ==
    IF /\ variant = "ctx"
       /\ ~\E i \in 1..Len(seen) : seen[i].id = id
       /\ IsAutoForm(id)
       /\ ParseSuffix(id) >= 0 /\ ParseSuffix(id) < Len(seen)
       /\ seen[ParseSuffix(id) + 1].id # ""
    THEN seen[ParseSuffix(id) + 1].id
    ELSE id

\* a faulty activateDrawing that refuses an id no drawing it sees has
ActivateDrawingKnownOnly(variant, id, seen, prev) ==
    IF \E i \in 1..Len(seen) : seen[i].id = id
    THEN (IF Includes(prev, id) THEN prev ELSE Append(prev, id))
    ELSE prev

\* a faulty activateDrawing that replaces the active ids by the new one
ActivateDrawingAlone(variant, id, seen, prev) == <<id>>

\* activateDrawing(id): the functional update of activeDrawingIds
ActivateDrawing(variant, id, seen, prev) ==
    IF variant = "ctx"
    THEN IF Includes(prev, ActivationTarget(variant, id, seen))
         THEN prev
         ELSE Append(prev, ActivationTarget(variant, id, seen))
    ELSE Append(prev, id)

RECURSIVE ActivateAll(_, _, _, _)
\* ids.forEach(id => activateDrawing(id)), all from one closure
ActivateAll(variant, ids, seen, prev) ==
    IF ids = <<>> THEN prev
    ELSE ActivateAll(variant, Tail(ids), seen,
                     ActivateDrawing(variant, Head(ids), seen, prev))

\* a faulty reset that drops only the oldest active id
ResetDropsOldest(prev) == IF prev = <<>> THEN prev ELSE Tail(prev)

\* resetActiveDrawings(): setActiveDrawingIds([])
ResetActiveDrawings(prev) == <<>>

\* the ids the zero-delay callback of handleSetDrawings activates: drawings
\* with an id not in the activeDrawingIds of the render that made the call
AutoActivateIds(processed, snapActive) ==
    LET ids == [i \in 1..Len(processed) |-> processed[i].id]
    IN  SelectSeq(ids, LAMBDA id : id # "" /\ ~Includes(snapActive, id))

\* the ids of the drawings that carry one: drawings.forEach(d => if (d.id) ...)
\* cleanTextForTTS: a text that is one JSON object is replaced by the
\* explanation it wraps; "{" and "}" stand for the wrapping
cleanTextForTTS(text) ==
    IF Len(text) >= 2 /\ text[1] = "{" /\ text[Len(text)] = "}"
    THEN SubSeq(text, 2, Len(text) - 1)
    ELSE text

\* setCurrentTTS as the provider exposes it
SetCurrentTTS(variant, text) ==
    IF variant = "ctx" THEN cleanTextForTTS(text) ELSE text

IdsOf(list) ==
    SelectSeq([i \in 1..Len(list) |-> list[i].id], LAMBDA id : id # "")

\* ------------------------------------------------------------------- state

VARIABLES
    registry,           \* which TTSProvider variant is mounted
    currentTTS,         \* Registry: narration text
    isPlaying,          \* Registry: playing flag
    audioDuration,      \* Registry: estimated, then measured duration (ms)
    drawings,           \* Registry: drawing instructions of the turn
    activeDrawingIds,   \* Registry: array of activated ids
    isRecording,        \* useState(false)
    isProcessing,       \* useState(false)
    error,              \* useState(null): "none" or the kind of error shown
    autoMic,            \* useState(true)
    autoMicRef,         \* useRef(autoMic)
    streamRef,          \* index in sessions of the referenced stream, 0 = null
    mediaRecorderRef,   \* index in sessions of the referenced recorder, 0 = null
    chunksRef,          \* recorded chunks, each named by the session that made it
    audioEndTimeoutRef, \* handle of the last fallback timer armed, 0 = null
    sessions,           \* every capture session created: stream and recorder
    gum,                \* getUserMedia calls awaiting their answer
    requests,           \* HTTP requests awaiting their answer
    audio,              \* the audio element
    timers,             \* pending setTimeout callbacks, in arming order
    nextTimerId,        \* next timer handle
    transcript,         \* lines passed to onTranscriptUpdate, by kind
    started,            \* startRecordingInternal calls made so far
    storedAnswer,       \* localStorage 'currentProblemAnswer', "" = no item
    prompts,            \* whiteboard prompt requests sent so far
    subtitle,           \* state and refs of the SubtitleDisplay component
    validation,         \* the last answer check and App's isProcessingAnswer
    lastOp              \* history: the handler that ran last

regVars == <<registry, currentTTS, isPlaying, audioDuration, drawings, activeDrawingIds>>
uiVars == <<isRecording, isProcessing, error, autoMic, autoMicRef>>
capVars == <<streamRef, mediaRecorderRef, chunksRef, sessions, gum, started>>
playVars == <<audio, audioEndTimeoutRef, timers, nextTimerId>>
netVars == <<requests, transcript, storedAnswer, prompts, subtitle, validation>>
histVars == <<lastOp>>
vars == <<regVars, uiVars, capVars, playVars, netVars, histVars>>

\* a request in flight: the closure that will handle its answer, and as
\* history how many requests were issued after it and whether the response
\* of one of those has been applied already
Request(kind, snap) == [kind |-> kind, snap |-> snap, newer |-> 0, late |-> FALSE]

\* history: one more request is issued
Issue(reqs) == [i \in 1..Len(reqs) |-> [reqs[i] EXCEPT !.newer = @ + 1]]

\* history: the response of a request that has n newer ones is applied
Supersede(reqs, n) ==
    [i \in 1..Len(reqs) |-> [reqs[i] EXCEPT !.late = @ \/ reqs[i].newer > n]]

\* what a handler closure sees of the Registry: the drawings and active ids
\* of the render that created it
Snap(d, a) == [d |-> d, a |-> a]

\* closures of the first render: the 'ended' listener is registered once
MountSnap == Snap(<<>>, <<>>)

Timer(id, kind, left, arg, ids, snap) ==
    [id |-> id, kind |-> kind, left |-> left, arg |-> arg, ids |-> ids,
     snap |-> snap, stopped |-> FALSE]

NoHandler == [kind |-> "none", est |-> 0, text |-> <<>>, nDrawings |-> 0, snap |-> MountSnap]

\* new Audio(): nothing loaded, no onloadedmetadata handler.  History of the
\* current playback: `fallback` is the handle of the fallback timer its
\* onloadedmetadata armed (0 if none), `cleared` tells whether that handler
\* dropped a fallback timer that was still pending, `done` counts its
\* completion transitions (the 'ended' handler and the callback of that timer)
NoAudio ==
    [state |-> "empty", left |-> 0, playQueued |-> FALSE, handler |-> NoHandler,
     fallback |-> 0, cleared |-> FALSE, done |-> 0]

\* a faulty clearTimeout that leaves the timer pending
ClearTimeoutKeeps(ts, handle) == ts

\* clearTimeout(handle): the timer with that handle, if still pending, is dropped
ClearTimeout(ts, handle) == SelectSeq(ts, LAMBDA t : t.id # handle \/ t.kind # "fallback")

\* the pending fallback timers
PendingFallback == SelectSeq(timers, LAMBDA t : t.kind = "fallback")

\* SubtitleDisplay before Whiteboard renders it: no state, no timer handles.
\* `index` is currentSegmentIndex, `lettersShown` the counter of the running
\* interval's closure; as history, `ver` counts the changes of its props,
\* `since` is the value of `ver` at the last change of text or isPlaying,
\* `completions` counts the timeouts that ended the last segment, `done`
\* those of them that came after the last change of text or isPlaying, and
\* `elapsed` is the time since the playing effect last started a segment
NoSubtitle ==
    [mounted |-> FALSE, segments |-> <<>>, segmentTimings |-> <<>>, index |-> 0,
     visibleLetters |-> 0, lettersShown |-> 0, timerRef |-> 0, letterTimerRef |-> 0,
     ver |-> 0, since |-> 0, completions |-> 0, done |-> 0, elapsed |-> 0]

\* no answer has been checked yet.  `path` is the place the last check was
\* made at, `candidate` and `problem` what it compared, `isCorrect` and
\* `message` its outcome; `isProcessingAnswer` is App's state of that name
NoValidation ==
    [path |-> "none", candidate |-> <<>>, problem |-> "", isCorrect |-> FALSE,
     message |-> <<>>, isProcessingAnswer |-> FALSE]

\* the components after their first render
Components ==
    /\ currentTTS = <<>>
    /\ isPlaying = FALSE
    /\ audioDuration = 0
    /\ drawings = <<>>
    /\ activeDrawingIds = <<>>
    /\ isRecording = FALSE
    /\ isProcessing = FALSE
    /\ error = "none"
    /\ autoMic = TRUE
    /\ autoMicRef = TRUE
    /\ streamRef = 0
    /\ mediaRecorderRef = 0
    /\ chunksRef = <<>>
    /\ audioEndTimeoutRef = 0
    /\ sessions = <<>>
    /\ gum = <<>>
    /\ requests = <<>>
    /\ audio = NoAudio
    /\ timers = <<>>
    /\ nextTimerId = 1
    /\ transcript = <<>>
    /\ started = 0
    /\ prompts = <<>>
    /\ subtitle = NoSubtitle
    /\ validation = NoValidation
    /\ lastOp = "init"

\* the state after the providers and the component have mounted in a browser
\* that holds no 'currentProblemAnswer' item
Mounted ==
    /\ Components
    /\ storedAnswer = ""

\* the orchestrator runs with the TTSProvider whose DrawingInstruction has an
\* optional id, the one its `if (drawing.id)` is written against
Init ==
    /\ registry = "ctx"
    /\ Mounted

\* ------------------------------------------------- inputs of the orchestrator

\* transcript lines a capture request is still accepted at (bounds the retries
\* of a failing greeting)
MaxLines == 2

GreetingTexts == { <<"w", ".">> }

\* the speech responses the backend sends: a problem to solve (an explanation
\* without marker, no scene, the expected answer "7"), and an explanation
\* with the marker of a1, a scene of two drawings, the second without id, and
\* no expected answer
Responses ==
    { [text |-> <<"w", " ", "w", ".">>, scene |-> <<>>, final |-> "7"],
      [text |-> <<"w", " ", "[DRAW:a1]", " ", "w", ".">>,
       scene |-> <<Drawing("a1", "apple"), Drawing("", "circle")>>, final |-> ""] }

\* tutor narrations applied so far: each adds one "PEARL" line
TurnsOf(tr) == Cardinality({i \in 1..Len(tr) : tr[i] = "PEARL"})

\* audio.duration * 1000 of the audio resource, known when its metadata loads
ActualDurations == {1000, 4000}

\* the render a click handler belongs to sees the current Registry
ClickSnap == Snap(drawings, activeDrawingIds)

\* ------------------------------------------------------------ capture start

\* startRecordingInternal up to its await: setError(null), getUserMedia called
StartRecordingInternalCall(snap) ==
    /\ error' = "none"
    /\ gum' = Append(gum, snap)
    /\ started' = started + 1

\* getUserMedia answers the oldest call: the rest of startRecordingInternal
GetUserMediaResolve ==
    /\ gum # <<>>
    /\ \E granted \in BOOLEAN :
          IF granted
          THEN /\ sessions' = Append(sessions,
                      [stream |-> TRUE, recorder |-> "recording", snap |-> Head(gum)])
               /\ streamRef' = Len(sessions) + 1
               /\ chunksRef' = <<>>
               /\ mediaRecorderRef' = Len(sessions) + 1
               /\ isRecording' = TRUE
               /\ error' = error
          ELSE /\ error' = "mic"
               /\ isRecording' = FALSE
               /\ UNCHANGED <<sessions, streamRef, chunksRef, mediaRecorderRef>>
    /\ gum' = Tail(gum)
    /\ lastOp' = "getUserMedia"
    /\ UNCHANGED <<regVars, isProcessing, autoMic, autoMicRef, started, playVars,
                   netVars>>

\* ------------------------------------------------------------------ greeting

\* Tasks the browser has already queued (a due timer, the 'play' event, a
\* stopped recorder's events) are dispatched before the next user input: the
\* user acts between them, never in the middle of them.
Quiet ==
    /\ ~audio.playQueued
    /\ \A i \in 1..Len(timers) : timers[i].left > 0
    /\ \A i \in 1..Len(sessions) : sessions[i].recorder # "stopping"

\* the mic button is disabled while isProcessing
ButtonEnabled == ~isProcessing /\ Quiet

\* a faulty test that takes any transcript line for a narration
HasLine == transcript # <<>>

\* document.getElementById('transcript-container')?.textContent?.includes('PEARL:')
HasPearl == Includes(transcript, "PEARL")

\* toggleRecording -> startRecording -> playGreeting, up to its await
ClickStartGreeting ==
    /\ ButtonEnabled
    /\ ~isRecording
    /\ ~HasPearl
    /\ Len(transcript) < MaxLines
    /\ isProcessing' = TRUE
    /\ requests' = Append(Issue(requests), Request("greeting", ClickSnap))
    /\ lastOp' = "playGreeting"
    /\ UNCHANGED <<regVars, isRecording, error, autoMic, autoMicRef, capVars,
                   playVars, transcript, storedAnswer, prompts, subtitle,
                   validation>>

\* toggleRecording -> startRecording -> startRecordingInternal
ClickStartDirect ==
    /\ ButtonEnabled
    /\ ~isRecording
    /\ HasPearl
    /\ started < MaxStarts
    /\ StartRecordingInternalCall(ClickSnap)
    /\ lastOp' = "startRecording"
    /\ UNCHANGED <<regVars, isRecording, isProcessing, autoMic, autoMicRef,
                   streamRef, mediaRecorderRef, chunksRef, sessions,
                   playVars, netVars>>

\* history: the zero-delay callbacks armed while a response is processed
TagResponse(ts) == [i \in 1..Len(ts) |-> [ts[i] EXCEPT !.arg = "/response"]]

\* handleSetDrawings arms its zero-delay callback; one with nothing to
\* activate changes nothing when it runs and is not kept
AutoActivateTimers(processed, snap) ==
    IF registry = "ctx" /\ AutoActivateIds(processed, snap.a) # <<>>
    THEN << Timer(0, "auto", 0, "", AutoActivateIds(processed, snap.a), snap) >>
    ELSE <<>>

\* audioPlayerRef.current.src = url; onloadedmetadata = handler
LoadAudio(handler) ==
    [state |-> "loading", left |-> 0, playQueued |-> audio.playQueued,
     handler |-> handler, fallback |-> 0, cleared |-> FALSE, done |-> 0]

\* a faulty handler that clears the processing flag at the end of the try
\* block only: a failed request leaves the flag as it was
FinallySuccessOnly(failed, prev) == IF failed THEN prev ELSE FALSE

\* finally { setIsProcessing(false) }: runs after the try block and after the
\* catch block alike
Finally(failed, prev) == FALSE

\* the answer of GET /greeting: the rest of playGreeting
GreetingResponse ==
    /\ requests # <<>>
    /\ Head(requests).kind = "greeting"
    /\ \E outcome \in {"ok", "error"}, text \in GreetingTexts :
          IF outcome = "ok"
          THEN /\ currentTTS' = text
               /\ audioDuration' = estimateSpeechDuration(text)
               /\ activeDrawingIds' = ResetActiveDrawings(activeDrawingIds)
               /\ drawings' = ProcessedDrawings(registry, <<>>)
               /\ timers' = timers \o AutoActivateTimers(<<>>, Head(requests).snap)
               /\ audio' = LoadAudio([kind |-> "greeting",
                                      est |-> estimateSpeechDuration(text),
                                      text |-> text, nDrawings |-> 0,
                                      snap |-> Head(requests).snap])
               /\ transcript' = Append(transcript, "PEARL")
               /\ error' = error
               /\ isProcessing' = Finally(FALSE, isProcessing)
          ELSE /\ error' = "conn"
               /\ isProcessing' = Finally(TRUE, isProcessing)
               /\ transcript' = Append(transcript, "System")
               /\ UNCHANGED <<currentTTS, audioDuration, activeDrawingIds, drawings,
                              timers, audio>>
    /\ requests' = Tail(requests)
    /\ lastOp' = "greetingResponse"
    /\ UNCHANGED <<registry, isPlaying, isRecording, autoMic, autoMicRef, capVars,
                   audioEndTimeoutRef, nextTimerId, storedAnswer, prompts, subtitle,
                   validation>>

\* ------------------------------------------------------------- audio element

\* Math.floor(marker.position / cleanExplanation.length * actualDuration); a
\* division by 0 gives NaN or Infinity, which setTimeout takes as 0
MarkerDelay(position, cleanLen, actual) ==
    IF cleanLen = 0 THEN 0 ELSE (position * actual) \div cleanLen

\* the marker timers the response's onloadedmetadata arms, in marker order
MarkerTimers(handler, actual) ==
    LET markers == ExtractMarkers(handler.text)
        cleanLen == TextLen(StripMarkers(handler.text))
    IN  IF handler.kind = "response" /\ Len(markers) > 0 /\ handler.nDrawings > 0
        THEN [k \in 1..Len(markers) |->
                Timer(0, "marker", MarkerDelay(markers[k].position, cleanLen, actual),
                      markers[k].id, <<>>, handler.snap)]
        ELSE <<>>

FallbackBuffer(kind) == IF kind = "greeting" THEN GreetingBuffer ELSE ResponseBuffer

\* the fallback timer onloadedmetadata arms, when autoMicRef.current holds
FallbackTimers(handler, auto, handle) ==
    IF auto
    THEN << Timer(handle, "fallback", handler.est + FallbackBuffer(handler.kind),
                  handler.kind, <<>>, handler.snap) >>
    ELSE <<>>

\* 'loadedmetadata': the listener of the mount effect, then the onloadedmetadata
\* handler of playGreeting or processAudio; a rejected play() runs its catch
AudioLoadedMetadata ==
    /\ audio.state = "loading"
    /\ \E actual \in ActualDurations, playOk \in BOOLEAN :
          /\ audioDuration' = actual
          /\ audio' = [audio EXCEPT
                          !.state = IF playOk THEN "playing" ELSE "blocked",
                          !.left = IF playOk THEN actual ELSE 0,
                          !.playQueued = playOk \/ audio.playQueued,
                          !.fallback = IF autoMicRef THEN nextTimerId ELSE 0,
                          !.cleared =
                              ClearTimeout(timers, audioEndTimeoutRef) # timers]
          /\ timers' = ClearTimeout(timers, audioEndTimeoutRef)
                          \o MarkerTimers(audio.handler, actual)
                          \o FallbackTimers(audio.handler, autoMicRef, nextTimerId)
          /\ audioEndTimeoutRef' = IF autoMicRef THEN nextTimerId ELSE 0
          /\ nextTimerId' = IF autoMicRef THEN nextTimerId + 1 ELSE nextTimerId
          /\ isPlaying' = IF playOk THEN isPlaying ELSE FALSE
          /\ error' = IF playOk THEN error ELSE "play"
          /\ lastOp' = "loadedmetadata"
    /\ UNCHANGED <<registry, currentTTS, drawings, activeDrawingIds, isRecording,
                   isProcessing, autoMic, autoMicRef, capVars, netVars>>

\* 'play': setIsPlaying(true)
AudioPlayEvent ==
    /\ audio.playQueued
    /\ isPlaying' = TRUE
    /\ audio' = [audio EXCEPT !.playQueued = FALSE]
    /\ lastOp' = "play"
    /\ UNCHANGED <<registry, currentTTS, audioDuration, drawings, activeDrawingIds,
                   uiVars, capVars, audioEndTimeoutRef, timers, nextTimerId,
                   netVars>>

\* a faulty completion that starts a capture whatever autoMicRef.current is
CompletionAlwaysStarts(snap) ==
    /\ isPlaying' = FALSE
    /\ started < MaxStarts
    /\ StartRecordingInternalCall(snap)

\* a faulty completion that forgets setIsPlaying(false)
CompletionKeepsPlaying(snap) ==
    /\ isPlaying' = isPlaying
    /\ IF autoMicRef
       THEN /\ started < MaxStarts
            /\ StartRecordingInternalCall(snap)
       ELSE UNCHANGED <<error, gum, started>>

\* the completion transition shared by handleAudioEnded and the fallback
\* callbacks: setIsPlaying(false), then startRecordingInternal when
\* autoMicRef.current holds
Completion(snap) ==
    /\ isPlaying' = FALSE
    /\ IF autoMicRef
       THEN /\ started < MaxStarts
            /\ StartRecordingInternalCall(snap)
       ELSE UNCHANGED <<error, gum, started>>

\* playback reaches the end: 'pause' (setIsPlaying(false)), then 'ended'
\* (handleAudioEnded, a closure of the first render)
AudioEnded ==
    /\ audio.state = "playing"
    /\ audio.left = 0
    /\ ~audio.playQueued
    /\ audio' = [audio EXCEPT !.state = "ended", !.done = @ + 1]
    /\ Completion(MountSnap)
    /\ lastOp' = "handleAudioEnded"
    /\ UNCHANGED <<registry, currentTTS, audioDuration, drawings, activeDrawingIds,
                   isRecording, isProcessing, autoMic, autoMicRef, streamRef,
                   mediaRecorderRef, chunksRef, sessions, audioEndTimeoutRef,
                   timers, nextTimerId, netVars>>

\* ---------------------------------------------------------------- timers

Remove(s, i) == SubSeq(s, 1, i - 1) \o SubSeq(s, i + 1, Len(s))

DueTimers == {i \in 1..Len(timers) : timers[i].left = 0}

\* timers due at the same time run in the order they were armed
NextDue == Min(DueTimers)

\* the callback of the fallback timer armed by playGreeting or processAudio
FallbackTimeout ==
    /\ DueTimers # {}
    /\ timers[NextDue].kind = "fallback"
    /\ timers' = Remove(timers, NextDue)
    /\ Completion(timers[NextDue].snap)
    /\ audio' = IF timers[NextDue].id = audio.fallback
                THEN [audio EXCEPT !.done = @ + 1]
                ELSE audio
    /\ lastOp' = "fallbackTimeout"
    /\ UNCHANGED <<registry, currentTTS, audioDuration, drawings, activeDrawingIds,
                   isRecording, isProcessing, autoMic, autoMicRef, streamRef,
                   mediaRecorderRef, chunksRef, sessions, audioEndTimeoutRef,
                   nextTimerId, netVars>>

\* the callback of a marker timer: activateDrawing(marker.id)
MarkerTimeout ==
    /\ DueTimers # {}
    /\ timers[NextDue].kind = "marker"
    /\ timers' = Remove(timers, NextDue)
    /\ activeDrawingIds' = ActivateDrawing(registry, timers[NextDue].arg,
                                            timers[NextDue].snap.d, activeDrawingIds)
    /\ lastOp' = "markerTimeout"
    /\ UNCHANGED <<registry, currentTTS, isPlaying, audioDuration, drawings, uiVars,
                   capVars, audio, audioEndTimeoutRef, nextTimerId, netVars>>

\* history: the steps that are a setDrawings call or its zero-delay callback
SetDrawingsOps ==
    {"setDrawings", "setDrawings/again", "processDrawings", "autoActivate",
     "autoActivate/response"}

\* the zero-delay callback of handleSetDrawings
AutoActivateTimeout ==
    /\ DueTimers # {}
    /\ timers[NextDue].kind = "auto"
    /\ timers' = Remove(timers, NextDue)
    /\ activeDrawingIds' = ActivateAll(registry, timers[NextDue].ids,
                                        timers[NextDue].snap.d, activeDrawingIds)
    /\ lastOp' = "autoActivate" \o timers[NextDue].arg
    /\ UNCHANGED <<registry, currentTTS, isPlaying, audioDuration, drawings, uiVars,
                   capVars, audio, audioEndTimeoutRef, nextTimerId, netVars>>

\* what is counting down: the pending timers and the audio being played
Countdowns ==
    {timers[i].left : i \in 1..Len(timers)}
        \cup (IF audio.state = "playing" THEN {audio.left} ELSE {})

\* time passes up to the next timer or the end of the audio
Advance ==
    /\ Countdowns # {}
    /\ Min(Countdowns) > 0
    /\ ~audio.playQueued
    /\ timers' = [i \in 1..Len(timers) |->
                    [timers[i] EXCEPT !.left = @ - Min(Countdowns)]]
    /\ audio' = IF audio.state = "playing"
                THEN [audio EXCEPT !.left = @ - Min(Countdowns)]
                ELSE audio
    /\ subtitle' = IF subtitle.mounted
                   THEN [subtitle EXCEPT !.elapsed = @ + Min(Countdowns)]
                   ELSE subtitle
    /\ UNCHANGED <<regVars, uiVars, capVars, audioEndTimeoutRef, nextTimerId,
                   requests, transcript, storedAnswer, prompts, validation,
                   histVars>>

\* ------------------------------------------------------------- manual stop

\* a faulty stopRecording that forgets the clearTimeout
StopRecordingKeeps(ts, handle) == ts

\* stopRecording: if (audioEndTimeoutRef.current) clearTimeout(...)
StopRecordingClear(ts, handle) == IF handle # 0 THEN ClearTimeout(ts, handle) ELSE ts

\* history: the timers that were pending when the user stopped
MarkStopped(ts) == [i \in 1..Len(ts) |-> [ts[i] EXCEPT !.stopped = TRUE]]

\* mediaRecorderRef.current.stop() when it is not inactive: the recorder turns
\* inactive at once and its dataavailable and stop events are queued
StopRecorder(ss, ref) ==
    IF ref # 0 /\ ss[ref].recorder = "recording"
    THEN [ss EXCEPT ![ref].recorder = "stopping"]
    ELSE ss

\* toggleRecording -> stopRecording
ClickStop ==
    /\ ButtonEnabled
    /\ isRecording
    /\ sessions' = StopRecorder(sessions, mediaRecorderRef)
    /\ isRecording' = FALSE
    /\ timers' = MarkStopped(StopRecordingClear(timers, audioEndTimeoutRef))
    /\ audioEndTimeoutRef' = 0
    /\ lastOp' = IF PendingFallback # <<>> THEN "stopRecording/timer" ELSE "stopRecording"
    /\ UNCHANGED <<regVars, isProcessing, error, autoMic, autoMicRef, streamRef,
                   mediaRecorderRef, chunksRef, gum, started, audio, nextTimerId,
                   netVars>>

\* the recorder's 'dataavailable' (a chunk is kept when it has data) and
\* 'stop' events: onstop returns when no chunk was recorded, else it calls
\* processAudio, which runs up to its await
RecorderStopEvents ==
    \E s \in 1..Len(sessions), hasData \in BOOLEAN :
        /\ sessions[s].recorder = "stopping"
        /\ sessions' = [sessions EXCEPT ![s].recorder = "inactive"]
        /\ chunksRef' = IF hasData THEN Append(chunksRef, s) ELSE chunksRef
        /\ IF chunksRef' = <<>>
           THEN UNCHANGED <<isProcessing, requests>>
           ELSE /\ isProcessing' = TRUE
                /\ requests' = Append(Issue(requests),
                                      Request("speak", sessions[s].snap))
        /\ lastOp' = "onstop"
        /\ UNCHANGED <<regVars, isRecording, error, autoMic, autoMicRef, streamRef,
                       mediaRecorderRef, gum, started, playVars, transcript,
                       storedAnswer, prompts, subtitle,
                   validation>>

\* after `await processAudio(audioBlob)`: the tracks of streamRef.current are
\* stopped and the reference is cleared
CleanUpStream(ss, ref) == IF ref # 0 THEN [ss EXCEPT ![ref].stream = FALSE] ELSE ss

\* what POST /tutor/speak can answer: a well-formed response, a network or
\* backend error (axios throws), a body without `question`, a body with
\* `question` but without `answer`, an answer without `explanation`
SpeakOutcomes == {"valid", "error", "noQuestion", "noAnswer", "noExplanation"}

\* the outcomes whose handling reaches resetActiveDrawings() (line 323)
ReachesReset == {"valid", "noAnswer", "noExplanation"}

\* the outcomes whose handling reaches setDrawings and the immediate
\* activations (lines 345-358); `answerData.explanation` of a missing answer
\* throws before them, `explanation.replace` of a missing explanation after
ReachesDrawings == {"valid", "noExplanation"}

\* processAudio: setItem when the answer has a final_answer, else removeItem
\* ("" stands for no final_answer and for no stored item)
StoreFinalAnswer(final, prev) == final

\* history: a well-formed response, one that failed before anything was done
\* with it, or one that lacks the answer or its explanation
SpeakLabel(outcome) ==
    IF outcome = "valid" THEN "speakResponse/valid"
    ELSE IF outcome \in ReachesReset THEN "speakResponse/malformed"
    ELSE "speakResponse/failed"

\* the answer of POST /tutor/speak, drawn from the responses rs: the rest of
\* processAudio, then the rest of the onstop handler that awaited it
SpeakResponseOf(rs) ==
    /\ requests # <<>>
    /\ Head(requests).kind = "speak"
    /\ \E outcome \in SpeakOutcomes, resp \in rs :
          LET snap == Head(requests).snap
              text == resp.text
              scene == resp.scene
              est == estimateSpeechDuration(text)
          IN  /\ outcome = "valid" => TurnsOf(transcript) < MaxTurns
              /\ activeDrawingIds' =
                    IF outcome \in ReachesDrawings
                    THEN ActivateAll(registry, IdsOf(scene), snap.d,
                                     ResetActiveDrawings(activeDrawingIds))
                    ELSE IF outcome \in ReachesReset
                    THEN ResetActiveDrawings(activeDrawingIds)
                    ELSE activeDrawingIds
              /\ storedAnswer' = IF outcome \in ReachesDrawings
                                 THEN StoreFinalAnswer(resp.final, storedAnswer)
                                 ELSE storedAnswer
              /\ IF outcome \in ReachesDrawings
                 THEN /\ drawings' = ProcessedDrawings(registry, scene)
                      /\ timers' = timers \o TagResponse(
                            AutoActivateTimers(ProcessedDrawings(registry, scene), snap))
                 ELSE UNCHANGED <<drawings, timers>>
              /\ IF outcome = "valid"
                 THEN /\ currentTTS' = SetCurrentTTS(registry, StripMarkers(text))
                      /\ audioDuration' = est
                      /\ transcript' = transcript \o <<"You", "PEARL">>
                      /\ audio' = LoadAudio([kind |-> "response", est |-> est,
                                             text |-> text, nDrawings |-> Len(scene),
                                             snap |-> snap])
                      /\ requests' = Supersede(Tail(requests), Head(requests).newer)
                      /\ prompts' = Supersede(prompts, Head(requests).newer)
                      /\ UNCHANGED <<error, isPlaying>>
                 ELSE /\ error' = "proc"
                      /\ transcript' = Append(transcript, "System")
                      /\ isPlaying' = FALSE
                      /\ requests' = Tail(requests)
                      /\ UNCHANGED <<currentTTS, audioDuration, audio, prompts>>
              /\ lastOp' = SpeakLabel(outcome)
              /\ isProcessing' = Finally(outcome # "valid", isProcessing)
    /\ sessions' = CleanUpStream(sessions, streamRef)
    /\ streamRef' = 0
    /\ UNCHANGED <<registry, isRecording, autoMic, autoMicRef, mediaRecorderRef,
                   chunksRef, gum, started, audioEndTimeoutRef, nextTimerId,
                   subtitle, validation>>

SpeakResponse == SpeakResponseOf(Responses)

\* ------------------------------------------------------------ auto-mic toggle

\* a faulty toggleAutoMic that drops the handle without clearing the timer
ToggleAutoMicKeeps(ts, handle, newState) == ts

\* toggleAutoMic: if (!newAutoMicState && audioEndTimeoutRef.current) clearTimeout
ToggleAutoMicClear(ts, handle, newState) ==
    IF ~newState /\ handle # 0 THEN ClearTimeout(ts, handle) ELSE ts

\* ... audioEndTimeoutRef.current = null
ToggleAutoMicRef(handle, newState) == IF ~newState THEN 0 ELSE handle

\* the effect on [autoMic], run with the render the toggle causes:
\* autoMicRef.current = autoMic
AutoMicEffectRef(newState) == newState

\* the same effect: if (!autoMic && audioEndTimeoutRef.current) clearTimeout
AutoMicEffectClear(ts, handle, newState) ==
    IF ~newState /\ handle # 0 THEN ClearTimeout(ts, handle) ELSE ts

\* the auto-mic button: toggleAutoMic, then the render and its effect, which
\* finds the handle the handler has already cleared
ToggleAutoMic ==
    /\ Quiet
    /\ autoMic' = ~autoMic
    /\ autoMicRef' = AutoMicEffectRef(~autoMic)
    /\ timers' = AutoMicEffectClear(
                    ToggleAutoMicClear(timers, audioEndTimeoutRef, ~autoMic),
                    ToggleAutoMicRef(audioEndTimeoutRef, ~autoMic), ~autoMic)
    /\ audioEndTimeoutRef' = ToggleAutoMicRef(audioEndTimeoutRef, ~autoMic)
    /\ lastOp' = IF PendingFallback # <<>> /\ autoMic
                 THEN "toggleAutoMic/timer" ELSE "toggleAutoMic"
    /\ UNCHANGED <<regVars, isRecording, isProcessing, error, capVars, audio,
                   nextTimerId, netVars>>

\* ------------------------------------------------------------ specification

Next ==
    \/ ClickStartGreeting
    \/ GreetingResponse
    \/ ClickStartDirect
    \/ GetUserMediaResolve
    \/ AudioLoadedMetadata
    \/ AudioPlayEvent
    \/ AudioEnded
    \/ FallbackTimeout
    \/ MarkerTimeout
    \/ AutoActivateTimeout
    \/ Advance
    \/ ClickStop
    \/ RecorderStopEvents
    \/ SpeakResponse
    \/ ToggleAutoMic

Spec == Init /\ [][Next]_vars

\* every request is answered or fails in the end, and its handler then runs
SpecLive == Spec /\ WF_vars(GreetingResponse) /\ WF_vars(SpeakResponse)

\* ------------------------------------------- the Registry driven on its own

\* drawing lists a caller passes to setDrawings
RegDrawingPool == {Drawing("", "circle"), Drawing("a1", "apple"), Drawing("a2", "apple")}

RECURSIVE SeqsUpTo(_, _)
SeqsUpTo(S, n) ==
    IF n = 0 THEN {<<>>}
    ELSE SeqsUpTo(S, n - 1) \cup
         {Append(q, x) : q \in {r \in SeqsUpTo(S, n - 1) : Len(r) = n - 1}, x \in S}

RegDrawingLists == SeqsUpTo(RegDrawingPool, MaxDrawings)

\* ids a caller passes to activateDrawing: ids of drawings, an id no drawing
\* has, and ids of the automatic form
RegIdPool == {"a1", "a2", "zz", "auto-id-0", "ctx-auto-id-1"}

\* values given to setCurrentTTS, setIsPlaying and setAudioDuration
RegStates ==
    { [text |-> <<>>, playing |-> FALSE, ms |-> 0],
      [text |-> <<"w", ".">>, playing |-> TRUE, ms |-> 1000] }

\* the closures a caller can hold: of the current render or of the first one
CallerSnaps == {ClickSnap, MountSnap}

\* what the caller does to the scene before setDrawings: processAudio of the
\* first component passes it as it is, the auto-id variant fills missing ids
Callers == {"asIs", "autoId"}

CallerDrawings(caller, list) ==
    IF caller = "autoId"
    THEN [i \in 1..Len(list) |->
            IF list[i].id = "" THEN [list[i] EXCEPT !.id = AutoId(i - 1)] ELSE list[i]]
    ELSE list

RegInit ==
    /\ registry \in RegistryVariants
    /\ Mounted

\* setDrawings(list), as its callers make it: alone (playGreeting) or followed
\* in the same task by activateDrawing for each drawing with an id
\* (processAudio, handleWandClick)
RegSetDrawings ==
    \E raw \in RegDrawingLists, snap \in CallerSnaps, activateNow \in BOOLEAN,
       caller \in Callers :
        LET list == CallerDrawings(caller, raw)
        IN  /\ timers = <<>>
            /\ caller = "autoId" => activateNow
            /\ Len(activeDrawingIds) + (IF activateNow THEN Len(IdsOf(list)) ELSE 0)
                    <= MaxActive
            /\ drawings' = ProcessedDrawings(registry, list)
            /\ timers' = IF activateNow
                          THEN TagResponse(AutoActivateTimers(
                                              ProcessedDrawings(registry, list), snap))
                          ELSE AutoActivateTimers(ProcessedDrawings(registry, list), snap)
            /\ activeDrawingIds' =
                  IF activateNow
                  THEN ActivateAll(registry, IdsOf(list), snap.d, activeDrawingIds)
                  ELSE activeDrawingIds
            /\ lastOp' = IF activateNow THEN "processDrawings"
                         ELSE IF lastOp \in SetDrawingsOps THEN "setDrawings/again"
                         ELSE "setDrawings"
            /\ UNCHANGED <<registry, currentTTS, isPlaying, audioDuration,
                           uiVars, capVars, audio, audioEndTimeoutRef, nextTimerId,
                           netVars>>

\* activateDrawing(id), for an id of ids called from a closure of snaps
RegActivateDrawingOf(ids, snaps) ==
    \E id \in ids, snap \in snaps :
        /\ timers = <<>>
        /\ Len(activeDrawingIds) < MaxActive
        /\ activeDrawingIds' = ActivateDrawing(registry, id, snap.d, activeDrawingIds)
        /\ lastOp' = "activateDrawing"
        /\ UNCHANGED <<registry, currentTTS, isPlaying, audioDuration, drawings,
                       uiVars, capVars, playVars, netVars>>

RegActivateDrawing == RegActivateDrawingOf(RegIdPool, CallerSnaps)

\* resetActiveDrawings()
RegResetActive ==
    /\ timers = <<>>
    /\ activeDrawingIds' = ResetActiveDrawings(activeDrawingIds)
    /\ lastOp' = "resetActiveDrawings"
    /\ UNCHANGED <<registry, currentTTS, isPlaying, audioDuration, drawings,
                   uiVars, capVars, playVars, netVars>>

\* setCurrentTTS(text), setIsPlaying(flag), setAudioDuration(ms)
RegSetState ==
    \E st \in RegStates :
        /\ timers = <<>>
        /\ currentTTS' = st.text
        /\ isPlaying' = st.playing
        /\ audioDuration' = st.ms
        /\ lastOp' = "setState"
        /\ UNCHANGED <<registry, drawings, activeDrawingIds,
                       uiVars, capVars, playVars, netVars>>

RegNext ==
    \/ RegSetDrawings
    \/ RegActivateDrawing
    \/ RegResetActive
    \/ RegSetState
    \/ AutoActivateTimeout

SpecReg == RegInit /\ [][RegNext]_vars

\* ----------------------------------- one submission, answered with any text

\* length in tokens of the explanations explored
MaxTextLen == 3

TextTokens == {"w", " ", ".", ",", "[DRAW:a1]", "[DRAW:a2]"}

AllTexts == SeqsUpTo(TextTokens, MaxTextLen)

\* every explanation, without scene and with a scene of one drawing
TextResponses ==
    {[text |-> t, scene |-> sc, final |-> ""] :
        t \in AllTexts, sc \in {<<>>, <<Drawing("a1", "apple")>>}}

\* the orchestrator waiting for the answer of its first submission: the
\* greeting has played to its end, the capture the 'ended' handler started
\* was stopped by the user and its recording has been posted
Submitted ==
    /\ registry = "ctx"
    /\ currentTTS = <<"w", ".">>
    /\ isPlaying = FALSE
    /\ audioDuration = 1000
    /\ drawings = <<>>
    /\ activeDrawingIds = <<>>
    /\ isRecording = FALSE
    /\ isProcessing = TRUE
    /\ error = "none"
    /\ autoMic = TRUE
    /\ autoMicRef = TRUE
    /\ streamRef = 1
    /\ mediaRecorderRef = 1
    /\ chunksRef = <<1>>
    /\ audioEndTimeoutRef = 0
    /\ sessions = <<[stream |-> TRUE, recorder |-> "inactive", snap |-> MountSnap]>>
    /\ gum = <<>>
    /\ requests = <<Request("speak", MountSnap)>>
    /\ audio = [state |-> "ended", left |-> 0, playQueued |-> FALSE,
                handler |-> [kind |-> "greeting", est |-> 1000, text |-> <<"w", ".">>,
                             nDrawings |-> 0, snap |-> MountSnap],
                fallback |-> 1, cleared |-> FALSE, done |-> 1]
    /\ timers = <<>>
    /\ nextTimerId = 2
    /\ transcript = <<"PEARL">>
    /\ started = 1
    /\ storedAnswer = ""
    /\ prompts = <<>>
    /\ subtitle = NoSubtitle
    /\ validation = NoValidation
    /\ lastOp = "onstop"

TextSpeakResponse == SpeakResponseOf(TextResponses)

\* the answer, then the playback of its narration
TextNext ==
    \/ TextSpeakResponse
    \/ AudioLoadedMetadata
    \/ AudioPlayEvent
    \/ AudioEnded
    \/ FallbackTimeout
    \/ MarkerTimeout
    \/ AutoActivateTimeout
    \/ Advance

SpecText == Submitted /\ [][TextNext]_vars


\* ------------------------ the submission as the auto-id component handles it

\* history: as SpeakLabel, for the component that assigns auto-id-<index>
AutoIdLabel(outcome) ==
    IF outcome \in {"valid", "noExplanation"} THEN "autoIdSpeak/valid"
    ELSE IF outcome = "noAnswer" THEN "autoIdSpeak/malformed"
    ELSE "autoIdSpeak/failed"

\* the answer of POST /tutor/speak in the component of lines 791-1218: an
\* explanation that is not a string is read as '', a drawing without id gets
\* auto-id-<index>, and the catch block only logs
AutoIdSpeakResponse ==
    /\ requests # <<>>
    /\ Head(requests).kind = "speak"
    /\ \E outcome \in SpeakOutcomes, resp \in TextResponses :
          LET snap == Head(requests).snap
              text == IF outcome = "noExplanation" THEN <<>>
                      ELSE cleanTextForTTS(resp.text)
              scene == CallerDrawings("autoId", resp.scene)
              est == estimateSpeechDuration(text)
              ok == outcome \in {"valid", "noExplanation"}
          IN  /\ ok => TurnsOf(transcript) < MaxTurns
              /\ activeDrawingIds' =
                    IF ok
                    THEN ActivateAll(registry, IdsOf(scene), snap.d,
                                     ResetActiveDrawings(activeDrawingIds))
                    ELSE IF outcome = "noAnswer"
                    THEN ResetActiveDrawings(activeDrawingIds)
                    ELSE activeDrawingIds
              /\ IF ok
                 THEN /\ storedAnswer' = StoreFinalAnswer(resp.final, storedAnswer)
                      /\ drawings' = ProcessedDrawings(registry, scene)
                      /\ timers' = timers \o TagResponse(
                            AutoActivateTimers(ProcessedDrawings(registry, scene), snap))
                      /\ currentTTS' = SetCurrentTTS(registry, StripMarkers(text))
                      /\ audioDuration' = est
                      /\ transcript' = transcript \o <<"You", "PEARL">>
                      /\ audio' = LoadAudio([kind |-> "response/autoId", est |-> est,
                                             text |-> text, nDrawings |-> Len(scene),
                                             snap |-> snap])
                 ELSE UNCHANGED <<storedAnswer, drawings, timers, currentTTS,
                                  audioDuration, transcript, audio>>
              /\ lastOp' = AutoIdLabel(outcome)
              /\ isProcessing' = Finally(~ok, isProcessing)
    /\ requests' = Tail(requests)
    /\ sessions' = CleanUpStream(sessions, streamRef)
    /\ streamRef' = 0
    /\ UNCHANGED <<registry, isPlaying, isRecording, error, autoMic, autoMicRef,
                   mediaRecorderRef, chunksRef, gum, started, audioEndTimeoutRef,
                   nextTimerId, prompts, subtitle,
                   validation>>

AutoIdNext ==
    \/ AutoIdSpeakResponse
    \/ AutoActivateTimeout

SpecAutoId == Submitted /\ [][AutoIdNext]_vars

\* ------------------------------------- whiteboard prompts beside a submission
MaxPrompts == 2

\* handleWandClick on a shown, non-empty prompt, up to the request: nothing
\* keeps a second click from being sent while the first is unanswered
WandClick ==
    /\ Len(prompts) < MaxPrompts
    /\ storedAnswer' = ""
    /\ prompts' = Append(Issue(prompts), Request("prompt", ClickSnap))
    /\ requests' = Issue(requests)
    /\ lastOp' = "handleWandClick"
    /\ UNCHANGED <<regVars, uiVars, capVars, playVars, transcript, subtitle,
                   validation>>

\* what the prompt endpoints can answer: an answer object with explanation,
\* a plain answer, or a status that is not ok (or a rejected fetch)
WandOutcomes == {"object", "plain", "notOk"}

\* handleWandClick keeps the stored item when the answer has no final_answer
WandStoreFinalAnswer(final, prev) == IF final # "" THEN final ELSE prev

\* history: the answer of a superseded prompt, or of a current one
WandLabel(outcome, late) ==
    IF outcome = "notOk" THEN "wandResponse/notOk"
    ELSE IF late THEN "wandResponse/late"
    ELSE "wandResponse/applied"

\* the rest of handleWandClick once the answer of prompt i is there, the
\* answer being of one of the kinds os and drawn from the responses rs
WandResponseOf(os, rs) ==
    \E i \in 1..Len(prompts), outcome \in os, resp \in rs :
        LET snap == prompts[i].snap
            rest == [prompts EXCEPT ![i].kind = "answered"]
        IN  /\ prompts[i].kind = "prompt"
            /\ currentTTS' = IF outcome = "notOk" THEN currentTTS
                             ELSE SetCurrentTTS(registry, resp.text)
            /\ IF outcome = "object"
               THEN /\ drawings' = ProcessedDrawings(registry, resp.scene)
                    /\ activeDrawingIds' = ActivateAll(registry, IdsOf(resp.scene),
                                                       snap.d, activeDrawingIds)
                    /\ timers' = timers \o
                          AutoActivateTimers(ProcessedDrawings(registry, resp.scene), snap)
                    /\ storedAnswer' = WandStoreFinalAnswer(resp.final, storedAnswer)
               ELSE UNCHANGED <<drawings, activeDrawingIds, timers, storedAnswer>>
            /\ IF outcome = "notOk"
               THEN /\ prompts' = rest
                    /\ UNCHANGED requests
               ELSE /\ prompts' = Supersede(rest, prompts[i].newer)
                    /\ requests' = Supersede(requests, prompts[i].newer)
            /\ lastOp' = WandLabel(outcome, prompts[i].late)
            /\ UNCHANGED <<registry, isPlaying, audioDuration, uiVars, capVars,
                           audio, audioEndTimeoutRef, nextTimerId, transcript,
                           subtitle, validation>>

WandResponse == WandResponseOf(WandOutcomes, Responses)

BoardNext ==
    \/ WandClick
    \/ WandResponse
    \/ SpeakResponse
    \/ AutoActivateTimeout

SpecBoard == Submitted /\ [][BoardNext]_vars

\* --------------------------------------------------------- subtitle reveal
MaxChanges == 3

\* s.trim()
RECURSIVE Trim(_)
Trim(t) ==
    IF t = <<>> THEN <<>>
    ELSE IF Head(t) = " " THEN Trim(Tail(t))
    ELSE IF t[Len(t)] = " " THEN Trim(SubSeq(t, 1, Len(t) - 1))
    ELSE t

\* text.match(/([^.!?]+[.!?]\s*|\S+(?:\s+\S+){7,11}\s*)/g) from token p on,
\* for texts of fewer than eight words (the second alternative never
\* matches): a match is a run of at least one token other than ".", the "."
\* after it, and the whitespace after that; a "." with nothing before it and
\* a tail without "." are skipped
RECURSIVE MatchSegments(_, _)
MatchSegments(t, p) ==
    IF p > Len(t) THEN <<>>
    ELSE IF t[p] = "." THEN MatchSegments(t, p + 1)
    ELSE LET dots == {q \in (p + 1)..Len(t) : t[q] = "."}
         IN  IF dots = {} THEN <<>>
             ELSE LET q == Min(dots)
                      e == CHOOSE k \in q..Len(t) :
                              /\ \A j \in (q + 1)..k : t[j] = " "
                              /\ k = Len(t) \/ t[k + 1] # " "
                  IN  <<SubSeq(t, p, e)>> \o MatchSegments(t, e + 1)

\* (text.match(segmentRegex) || [text]).map(s => s.trim())
TrimmedSegments(t) ==
    LET extracted == IF MatchSegments(t, 1) = <<>> THEN <<t>> ELSE MatchSegments(t, 1)
    IN  [i \in 1..Len(extracted) |-> Trim(extracted[i])]

\* Math.round(n / d) for n >= 0, d > 0
RoundDiv(n, d) == (2 * n + d) \div (2 * d)

\* audioDuration || estimateSpeechDuration(text)
TotalDuration(t, duration) ==
    IF duration # 0 THEN duration ELSE estimateSpeechDuration(t)

\* Math.round(totalDuration * segment.length / text.length) per segment
SegmentTimingsOf(t, duration) ==
    [i \in 1..Len(TrimmedSegments(t)) |->
        RoundDiv(TotalDuration(t, duration) * TextLen(TrimmedSegments(t)[i]), TextLen(t))]

\* segmentTimings[currentSegmentIndex] || 2000
SegmentDuration(sub) ==
    IF sub.segmentTimings[sub.index + 1] # 0 THEN sub.segmentTimings[sub.index + 1]
    ELSE 2000

LetterCount(sub) == TextLen(sub.segments[sub.index + 1])

\* Math.max(15, Math.min(50, segmentDuration / letterCount)), as setInterval
\* takes it: the delay is truncated to whole milliseconds, x / 0 is Infinity
TypingInterval(sub) ==
    IF LetterCount(sub) = 0 THEN 50
    ELSE Max2(15, IF SegmentDuration(sub) \div LetterCount(sub) > 50 THEN 50
                  ELSE SegmentDuration(sub) \div LetterCount(sub))

\* a faulty remainder that never waits for the audio to catch up
RemainingTimeNone(sub, elapsedTime) == 0

\* remainingTime = Math.max(0, segmentDuration - elapsedTime)
RemainingTime(sub, elapsedTime) == Max2(0, SegmentDuration(sub) - elapsedTime)

\* a pending timer of the component; `ver` is the props version it was armed at
SubTimer(id, kind, left, ver) ==
    [id |-> id, kind |-> kind, left |-> left, ver |-> ver, stopped |-> FALSE]

SubTimers == SelectSeq(timers, LAMBDA t : t.kind \in {"letter", "segment"})

\* clearTimeout / clearInterval of the handle a ref holds (0 is null)
ClearRef(ts, ref) ==
    IF ref = 0 THEN ts
    ELSE SelectSeq(ts, LAMBDA t : ~(t.kind \in {"letter", "segment"} /\ t.id = ref))

\* a faulty cleanup that clears the segment timeout and leaves the interval
EffectCleanupKeepsInterval(ts, sub) == ClearRef(ts, sub.timerRef)

\* the cleanup the playing effect returns (lines 122-129)
EffectCleanup(ts, sub) == ClearRef(ClearRef(ts, sub.timerRef), sub.letterTimerRef)

\* the head of the playing effect (lines 61-69)
EffectClear(ts, sub) == ClearRef(ClearRef(ts, sub.timerRef), sub.letterTimerRef)

\* the playing effect goes past `if (!isPlaying || !text || segments.length === 0)`
EffectStarts(sub, playing, t) == playing /\ t # <<>> /\ sub.segments # <<>>

\* the timers after one run of the playing effect, id being the next handle
PlayingEffectTimers(ts, sub, playing, t, id) ==
    IF EffectStarts(sub, playing, t)
    THEN Append(EffectClear(ts, sub), SubTimer(id, "letter", TypingInterval(sub), sub.ver))
    ELSE EffectClear(ts, sub)

\* the component after that run
PlayingEffectState(sub, playing, t, id) ==
    IF EffectStarts(sub, playing, t)
    THEN [sub EXCEPT !.timerRef = 0, !.letterTimerRef = id,
                     !.visibleLetters = 0, !.lettersShown = 0, !.elapsed = 0]
    ELSE [sub EXCEPT !.timerRef = 0, !.letterTimerRef = 0]

\* a faulty segmenting effect that always derives the timings from the
\* estimate, whatever duration was measured
SegmentingEffectFromEstimate(sub, t, duration) ==
    [sub EXCEPT !.segments = IF t = <<>> THEN <<>> ELSE TrimmedSegments(t),
                !.segmentTimings = IF t = <<>> THEN <<>> ELSE SegmentTimingsOf(t, 0),
                !.index = 0, !.visibleLetters = 0]

\* the segmenting effect on [text, audioDuration]
SegmentingEffect(sub, t, duration) ==
    [sub EXCEPT !.segments = IF t = <<>> THEN <<>> ELSE TrimmedSegments(t),
                !.segmentTimings = IF t = <<>> THEN <<>> ELSE SegmentTimingsOf(t, duration),
                !.index = 0, !.visibleLetters = 0]

\* narrations and durations the Registry hands to the component
SubTexts ==
    {<<>>, <<"w", ".">>, <<"w", "w">>, <<"w", ".", " ", "w", ".">>,
     <<"w", ",", "w", ".", "w">>}

SubDurations == {0, 1000, 4000}

\* the Registry's text, playing flag or duration changes and Whiteboard
\* renders again: SubtitleDisplay exists while isPlaying && currentTTS.  With
\* the render come the effects whose dependencies changed, and the render the
\* segmenting effect's state updates cause
PropsChange ==
    \E t \in SubTexts, playing \in BOOLEAN, duration \in SubDurations :
        LET shown == playing /\ t # <<>>
            ver == subtitle.ver + 1
            since == IF t # currentTTS \/ playing # isPlaying
                     THEN ver ELSE subtitle.since
            done == IF since = ver THEN 0 ELSE subtitle.done
            fresh == [NoSubtitle EXCEPT !.mounted = shown, !.ver = ver,
                                        !.since = since, !.done = done,
                                        !.completions = subtitle.completions]
            kept == [subtitle EXCEPT !.ver = ver, !.since = since, !.done = done]
            resegment == t # currentTTS \/ duration # audioDuration
            before == IF ~subtitle.mounted THEN fresh ELSE kept
            segmented == IF ~subtitle.mounted \/ resegment
                         THEN SegmentingEffect(before, t, duration) ELSE before
            rerun == ~subtitle.mounted \/ resegment \/ playing # isPlaying
        IN  /\ subtitle.ver < MaxChanges
            /\ <<t, playing, duration>> # <<currentTTS, isPlaying, audioDuration>>
            /\ currentTTS' = t
            /\ isPlaying' = playing
            /\ audioDuration' = duration
            /\ IF ~shown
               THEN /\ timers' = IF subtitle.mounted
                                 THEN EffectCleanup(timers, subtitle) ELSE timers
                    /\ subtitle' = fresh
                    /\ UNCHANGED nextTimerId
               ELSE IF rerun
               THEN /\ timers' = PlayingEffectTimers(
                                    IF subtitle.mounted
                                    THEN EffectCleanup(timers, subtitle) ELSE timers,
                                    segmented, playing, t, nextTimerId)
                    /\ subtitle' = PlayingEffectState(segmented, playing, t, nextTimerId)
                    /\ nextTimerId' = nextTimerId + 1
               ELSE /\ subtitle' = segmented
                    /\ UNCHANGED <<timers, nextTimerId>>
            /\ lastOp' = "subtitle/props"
            /\ UNCHANGED <<registry, drawings, activeDrawingIds, uiVars, capVars,
                           audio, audioEndTimeoutRef, requests, transcript,
                           storedAnswer, prompts, validation>>

\* one tick of the letter interval (lines 91-120)
LetterTick ==
    /\ DueTimers # {}
    /\ timers[NextDue].kind = "letter"
    /\ LET n == subtitle.lettersShown + 1
           elapsed == n * TypingInterval(subtitle)
       IN  IF n >= LetterCount(subtitle)
           THEN /\ timers' = Append(Remove(timers, NextDue),
                                SubTimer(nextTimerId, "segment",
                                         RemainingTime(subtitle, elapsed),
                                         timers[NextDue].ver))
                /\ subtitle' = [subtitle EXCEPT !.lettersShown = n, !.visibleLetters = n,
                                                !.letterTimerRef = 0,
                                                !.timerRef = nextTimerId]
                /\ nextTimerId' = nextTimerId + 1
           ELSE /\ timers' = Append(Remove(timers, NextDue),
                                [timers[NextDue] EXCEPT !.left = TypingInterval(subtitle)])
                /\ subtitle' = [subtitle EXCEPT !.lettersShown = n, !.visibleLetters = n]
                /\ UNCHANGED nextTimerId
    /\ lastOp' = "subtitle/letter"
    /\ UNCHANGED <<regVars, uiVars, capVars, audio, audioEndTimeoutRef, requests,
                   transcript, storedAnswer, prompts, validation>>

\* the timeout after the last letter of a segment (lines 109-118), and the
\* render its setCurrentSegmentIndex causes; Whiteboard passes no onComplete
SegmentTimeout ==
    /\ DueTimers # {}
    /\ timers[NextDue].kind = "segment"
    /\ IF subtitle.index < Len(subtitle.segments) - 1
       THEN LET next == [subtitle EXCEPT !.index = @ + 1]
                rest == EffectCleanup(Remove(timers, NextDue), subtitle)
            IN  /\ timers' = PlayingEffectTimers(rest, next, isPlaying, currentTTS,
                                                 nextTimerId)
                /\ subtitle' = PlayingEffectState(next, isPlaying, currentTTS, nextTimerId)
                /\ nextTimerId' = nextTimerId + 1
       ELSE /\ timers' = Remove(timers, NextDue)
            /\ subtitle' = [subtitle EXCEPT !.completions = @ + 1, !.done = @ + 1]
            /\ UNCHANGED nextTimerId
    /\ lastOp' = "subtitle/segment"
    /\ UNCHANGED <<regVars, uiVars, capVars, audio, audioEndTimeoutRef, requests,
                   transcript, storedAnswer, prompts, validation>>

SubNext ==
    \/ PropsChange
    \/ LetterTick
    \/ SegmentTimeout
    \/ Advance

SpecSub == Init /\ [][SubNext]_vars

\* ------------------------------------------------- the estimator on its own
MaxEstLen == 4

\* "?" is a sentence-terminal mark other than the period
EstTokens == {"w", " ", ".", ",", "?"}

EstTexts == SeqsUpTo(EstTokens, MaxEstLen)

\* a caller hands a text to the estimator and stores text and estimate, as
\* playGreeting does with the greeting
Estimate ==
    \E t \in EstTexts :
        /\ currentTTS' = t
        /\ audioDuration' = estimateSpeechDuration(t)
        /\ lastOp' = "estimate"
        /\ UNCHANGED <<registry, isPlaying, drawings, activeDrawingIds, uiVars,
                       capVars, playVars, netVars>>

SpecEst == Init /\ [][Estimate]_vars

\* ---------------------------------------------------------- answer checking
MaxAnswerLen == 3
MaxMessages == 1

\* characters of a typed answer: a digit, a capital letter, whitespace
AnswerTokens == {"5", "A", " "}

\* what the student can submit: both inputs refuse a blank text
Candidates == {c \in SeqsUpTo(AnswerTokens, MaxAnswerLen) : Trim(c) # <<>>}

\* s.toLowerCase()
ToLowerCase(t) == [i \in 1..Len(t) |-> IF t[i] = "A" THEN "a" ELSE t[i]]

\* String(n) of a non-negative integer
RECURSIVE DigitsOf(_)
DigitsOf(n) ==
    IF n < 10 THEN <<ToString(n)>> ELSE DigitsOf(n \div 10) \o <<ToString(n % 10)>>

\* String(correct_value): correct_value is a number or a string
StringOf(v) == IF v.isNumber THEN DigitsOf(v.number) ELSE v.string

\* the 'currentProblemAnswer' items a turn can have stored, and JSON.parse of
\* each: the numbers 5 and 55, and the strings "5", "A" and " a"
StoredItems == {"n5", "n55", "s5", "sA", "s a"}

ParseItem(item) ==
    [correct_value |->
        CASE item = "n5" -> [isNumber |-> TRUE, number |-> 5, string |-> <<>>]
          [] item = "n55" -> [isNumber |-> TRUE, number |-> 55, string |-> <<>>]
          [] item = "s5" -> [isNumber |-> FALSE, number |-> 0, string |-> <<"5">>]
          [] item = "sA" -> [isNumber |-> FALSE, number |-> 0, string |-> <<"A">>]
          [] OTHER -> [isNumber |-> FALSE, number |-> 0, string |-> <<" ", "a">>],
     explanation |-> <<"hint">>,
     feedback_correct |-> <<"yes">>,
     feedback_incorrect |-> <<"no">>]

\* a faulty comparison that trims and does not fold the case
IsCorrectCaseSensitive(problem, candidate) ==
    Trim(StringOf(problem.correct_value)) = Trim(candidate)

\* String(correct_value).trim().toLowerCase() === answer.trim().toLowerCase()
IsCorrect(problem, candidate) ==
    ToLowerCase(Trim(StringOf(problem.correct_value))) = ToLowerCase(Trim(candidate))

\* AnswerValidator: isCorrect ? feedback_correct : feedback_incorrect
FormFeedback(problem, ok) ==
    IF ok THEN problem.feedback_correct ELSE problem.feedback_incorrect

\* App: isCorrect ? feedback_correct : `${feedback_incorrect} ${explanation}`
ChatFeedback(problem, ok) ==
    IF ok THEN problem.feedback_correct
    ELSE problem.feedback_incorrect \o <<" ">> \o problem.explanation

\* a timer of App; `check` is what its callback's closure holds
AppTimer(id, kind, left, check) ==
    [id |-> id, kind |-> kind, left |-> left, check |-> check, stopped |-> FALSE]

YouLines == Cardinality({i \in 1..Len(transcript) : transcript[i] = "You"})

\* the Check button or Enter in AnswerValidator, which read the stored item
\* when it mounted
ValidateAnswer ==
    /\ storedAnswer # ""
    /\ \E candidate \in Candidates :
          LET problem == ParseItem(storedAnswer)
              ok == IsCorrect(problem, candidate)
          IN  /\ validation' = [validation EXCEPT
                     !.path = "form", !.candidate = candidate,
                     !.problem = storedAnswer, !.isCorrect = ok,
                     !.message = FormFeedback(problem, ok)]
              /\ currentTTS' = SetCurrentTTS(registry, FormFeedback(problem, ok))
    /\ lastOp' = "validateAnswer"
    /\ UNCHANGED <<registry, isPlaying, audioDuration, drawings, activeDrawingIds,
                   uiVars, capVars, playVars, requests, transcript, storedAnswer,
                   prompts, subtitle>>

\* a typed chat message: App's handleSendMessage with the updateTranscript it
\* calls, which sees the isProcessingAnswer of the render it belongs to
HandleSendMessage ==
    /\ YouLines < MaxMessages
    /\ \E message \in Candidates :
          LET checked == storedAnswer # "" /\ ~validation.isProcessingAnswer
              check == IF checked
                       THEN [path |-> "chat", candidate |-> message,
                             problem |-> storedAnswer,
                             isCorrect |-> IsCorrect(ParseItem(storedAnswer), message),
                             message |-> ChatFeedback(ParseItem(storedAnswer),
                                            IsCorrect(ParseItem(storedAnswer), message))]
                       ELSE [path |-> "reply", candidate |-> <<>>,
                             problem |-> storedAnswer, isCorrect |-> FALSE,
                             message |-> <<>>]
              reset == IF storedAnswer # ""
                       THEN <<AppTimer(nextTimerId + 1, "answerReset", 2000, check)>>
                       ELSE <<>>
          IN  timers' = timers \o reset
                            \o <<AppTimer(nextTimerId, "chatReply", 500, check)>>
    /\ nextTimerId' = nextTimerId + 2
    /\ transcript' = Append(transcript, "You")
    /\ validation' = [validation EXCEPT !.isProcessingAnswer = @ \/ storedAnswer # ""]
    /\ lastOp' = "handleSendMessage"
    /\ UNCHANGED <<regVars, uiVars, capVars, audio, audioEndTimeoutRef, requests,
                   storedAnswer, prompts, subtitle>>

\* the 500 ms callback of handleSendMessage: the feedback or the stock reply
ChatReplyTimeout ==
    /\ DueTimers # {}
    /\ timers[NextDue].kind = "chatReply"
    /\ timers' = Remove(timers, NextDue)
    /\ transcript' = Append(transcript, "PEARL")
    /\ validation' =
          IF timers[NextDue].check.path = "chat"
          THEN [validation EXCEPT
                    !.path = "chat",
                    !.candidate = timers[NextDue].check.candidate,
                    !.problem = timers[NextDue].check.problem,
                    !.isCorrect = timers[NextDue].check.isCorrect,
                    !.message = timers[NextDue].check.message]
          ELSE validation
    /\ lastOp' = IF timers[NextDue].check.path = "chat"
                 THEN "chatFeedback" ELSE "chatReply"
    /\ UNCHANGED <<regVars, uiVars, capVars, audio, audioEndTimeoutRef, nextTimerId,
                   requests, storedAnswer, prompts, subtitle>>

\* setTimeout(() => setIsProcessingAnswer(false), 2000)
AnswerResetTimeout ==
    /\ DueTimers # {}
    /\ timers[NextDue].kind = "answerReset"
    /\ timers' = Remove(timers, NextDue)
    /\ validation' = [validation EXCEPT !.isProcessingAnswer = FALSE]
    /\ lastOp' = "answerReset"
    /\ UNCHANGED <<regVars, uiVars, capVars, audio, audioEndTimeoutRef, nextTimerId,
                   requests, transcript, storedAnswer, prompts, subtitle>>

\* the page with an item that an earlier turn stored
ValInit ==
    /\ registry = "ctx"
    /\ Components
    /\ storedAnswer \in StoredItems

ValNext ==
    \/ ValidateAnswer
    \/ HandleSendMessage
    \/ ChatReplyTimeout
    \/ AnswerResetTimeout
    \/ Advance

SpecVal == ValInit /\ [][ValNext]_vars

\* ------------------------------------------------------------------ claims
\* C1 to C7, C14, C17, C29, C30, C33, C34 and C37 to C39 are stated over
\* Spec, C8 to C12, C31 and C32 over SpecReg, C13 over SpecText, C15, C19 and
\* C28 over SpecBoard, C16 over SpecAutoId, C18 and C40 over SpecLive, C20 to
\* C22, C35 and C36 over SpecSub, C23 to C25 over SpecEst and C26 and C27 over
\* SpecVal.

\* C1: a narration playback runs its completion transition (the 'ended'
\* handler, or the callback of the fallback timer armed for it) at most once:
\* whichever of the two runs first cancels the other.
C1_CompletionAtMostOnce == audio.done <= 1

\* C2: at every moment at most one capture session, a media stream with its
\* recorder, is live.
C2_AtMostOneLiveSession ==
    Cardinality({i \in 1..Len(sessions) :
                    sessions[i].stream /\ sessions[i].recorder = "recording"}) <= 1

\* C3: no fallback timer that was armed before a manual stop is pending after
\* it, so none is left to run its completion later.
C3_NoFallbackSurvivesStop ==
    \A i \in 1..Len(timers) : timers[i].kind = "fallback" => ~timers[i].stopped

\* C3, its case: the user has stopped while the narration was playing and a
\* fallback timer was pending, and the timer is gone
C3_StoppedDuringPlayback ==
    /\ lastOp = "stopRecording/timer"
    /\ audio.state = "playing"
    /\ PendingFallback = <<>>

\* C4: a marker timer that was pending at a manual stop never runs its
\* activateDrawing call.
C4_NoMarkerAfterStop == [][MarkerTimeout => ~timers[NextDue].stopped]_vars

\* C5: from the moment auto-recapture is toggled off, no fallback timer is
\* pending and the handle is dropped, whether or not a narration is playing.
C5_ToggleOffCancels ==
    (lastOp \in {"toggleAutoMic", "toggleAutoMic/timer"} /\ ~autoMic)
        => (PendingFallback = <<>> /\ audioEndTimeoutRef = 0)

\* C5, its case: the toggle was switched off mid-playback while a fallback
\* timer was pending
C5_ToggledOffMidPlayback ==
    /\ lastOp = "toggleAutoMic/timer"
    /\ ~autoMic
    /\ audio.state = "playing"
    /\ PendingFallback = <<>>

\* C6: while auto-recapture is off no fallback timer is pending, and a
\* playback that ends while it is off starts no capture: no getUserMedia call,
\* no session, no recording flag.
C6_OffNoCapture ==
    [][ /\ ~autoMicRef' => PendingFallback' = <<>>
        /\ ((AudioEnded \/ FallbackTimeout) /\ ~autoMicRef)
              => UNCHANGED <<gum, started, sessions, isRecording>> ]_vars

\* C6, its case: a playback whose fallback timer had been armed (auto-recapture
\* was on when it loaded) has ended with auto-recapture off, and nothing was
\* captured
C6_EndedWhileOff ==
    /\ lastOp = "handleAudioEnded"
    /\ ~autoMicRef
    /\ audio.fallback # 0
    /\ audio.done = 1
    /\ started = 0
    /\ gum = <<>>

\* C7: the 'ended' handler clears the playing flag; with auto-recapture on it
\* calls startRecordingInternal once, and the capture session begins when
\* microphone access is granted; with auto-recapture off it leaves the
\* capture state as it is.
C7_EndedTransition ==
    [][ /\ AudioEnded =>
              /\ ~isPlaying'
              /\ IF autoMicRef
                 THEN started' = started + 1 /\ gum' = Append(gum, MountSnap)
                 ELSE UNCHANGED <<gum, started, sessions, isRecording>>
        /\ (GetUserMediaResolve /\ Len(sessions') > Len(sessions)) =>
              /\ isRecording'
              /\ sessions'[Len(sessions')].stream
              /\ sessions'[Len(sessions')].recorder = "recording" ]_vars

\* C7, its case: the playback has ended, microphone access was granted and
\* the capture session it started is recording
C7_CaptureAfterEnded ==
    /\ lastOp = "getUserMedia"
    /\ audio.state = "ended"
    /\ ~isPlaying
    /\ isRecording
    /\ Len(sessions) = 1
    /\ sessions[1].snap = MountSnap

\* C8: in every Registry state, for every id, a second activateDrawing(id)
\* leaves activeDrawingIds as the first call left it.
C8_ActivateIdempotent ==
    \A id \in RegIdPool, snap \in CallerSnaps :
        ActivateDrawing(registry, id, snap.d,
                        ActivateDrawing(registry, id, snap.d, activeDrawingIds))
            = ActivateDrawing(registry, id, snap.d, activeDrawingIds)

\* C9: every drawing instruction stored in the Registry has a non-empty id.
C9_StoredIdsNonEmpty == \A i \in 1..Len(drawings) : drawings[i].id # ""

\* C10: resetActiveDrawings empties activeDrawingIds and leaves the drawings,
\* the narration text, the playing flag and the audio duration as they were.
C10_ResetFrame ==
    [][lastOp' = "resetActiveDrawings" =>
          /\ activeDrawingIds' = <<>>
          /\ drawings' = drawings
          /\ currentTTS' = currentTTS
          /\ isPlaying' = isPlaying
          /\ audioDuration' = audioDuration]_vars

\* C10, its case: a reset has run on a Registry that holds drawings, a
\* narration, a raised playing flag and a duration
C10_ResetOnFilledRegistry ==
    /\ lastOp = "resetActiveDrawings"
    /\ activeDrawingIds = <<>>
    /\ drawings # <<>>
    /\ currentTTS # <<>>
    /\ isPlaying
    /\ audioDuration > 0

\* C11: setDrawings, with the zero-delay activation it arms, removes no id
\* from activeDrawingIds: every id active before the step is active after it.
C11_SetDrawingsKeepsActive ==
    [][lastOp' \in SetDrawingsOps =>
          \A i \in 1..Len(activeDrawingIds) :
              Includes(activeDrawingIds', activeDrawingIds[i])]_vars

\* C11, its case: a second setDrawings in succession, whose list shares "a1"
\* with what is active and lacks another active id, has run
C11_SecondCallOverlapping ==
    /\ lastOp = "setDrawings/again"
    /\ Includes(activeDrawingIds, "a1")
    /\ \E i \in 1..Len(drawings) : drawings[i].id = "a1"
    /\ \E i \in 1..Len(activeDrawingIds) :
          \A j \in 1..Len(drawings) : drawings[j].id # activeDrawingIds[i]

\* C12: once a response's drawings are processed (setDrawings, activateDrawing
\* for each drawing with an id, then the zero-delay activation), every stored
\* drawing that came with an id, that is every id but those the Registry
\* assigned itself, is in activeDrawingIds.
C12_ResponseDrawingsActive ==
    ((lastOp = "processDrawings" /\ timers = <<>>) \/ lastOp = "autoActivate/response")
        => \A i \in 1..Len(drawings) :
              (/\ drawings[i].id # ""
               /\ \A k \in 0..MaxDrawings : drawings[i].id # CtxAutoId(k))
                  => Includes(activeDrawingIds, drawings[i].id)

\* C13: the delay of every marker timer armed when the metadata of a
\* response's audio loads, floor(position / cleaned length * measured
\* duration), is at most the measured duration.
C13_MarkerDelayWithinDuration ==
    lastOp = "loadedmetadata"
        => \A i \in 1..Len(timers) :
              timers[i].kind = "marker" => timers[i].left <= audioDuration

\* C14: once a response is applied, the estimate held as audioDuration and
\* kept for the fallback timer is the estimate of the cleaned narration.
C14_EstimateOfCleanedText ==
    lastOp = "speakResponse/valid"
        => /\ audioDuration = estimateSpeechDuration(currentTTS)
           /\ audio.handler.est = estimateSpeechDuration(currentTTS)

\* C15: on every path that stores a response narration, the speech response
\* and the whiteboard prompt response, the narration text held in the
\* Registry contains no [DRAW:<id>] marker (the transcript line of a speech
\* response is built from the same cleaned text).
C15_NarrationWithoutMarkers ==
    \A i \in 1..Len(currentTTS) : ~IsMarker(currentTTS[i])

\* C16: when the request made by processAudio fails with a network or
\* backend error, a "System" line is appended to the transcript, the playing
\* flag is false afterwards, and that step schedules no fallback timer and
\* no marker timer.
C16_FailureSurfaced ==
    [][(lastOp' \in {"speakResponse/failed", "autoIdSpeak/failed"}
        /\ (SpeakResponseOf(Responses \cup TextResponses) \/ AutoIdSpeakResponse))
          => (/\ transcript' = Append(transcript, "System")
              /\ ~isPlaying'
              /\ timers' = timers
              /\ audioEndTimeoutRef' = audioEndTimeoutRef)]_vars

\* C17: a response that lacks the narration text (answer or its explanation
\* missing) is handled as a network failure is: a "System" line is appended,
\* the playing flag is false afterwards, no timer is scheduled, and the
\* Registry's narration, drawings and active ids stay as they were.
C17_MalformedLeavesRegistry ==
    [][(lastOp' = "speakResponse/malformed"
        /\ SpeakResponseOf(Responses \cup TextResponses))
          => (/\ transcript' = Append(transcript, "System")
              /\ ~isPlaying'
              /\ timers' = timers
              /\ UNCHANGED <<currentTTS, drawings, activeDrawingIds>>)]_vars

\* C18: after any component-level error the orchestrator settles: whenever
\* the processing flag is set it is cleared later, so the mic button, which
\* is disabled only while the flag is set, always becomes usable again.
C18_ProcessingCleared == isProcessing ~> ~isProcessing

\* a failed submission has been handled and the mic button is enabled
C18_SettledAfterFailure ==
    /\ lastOp \in {"speakResponse/failed", "speakResponse/malformed"}
    /\ error = "proc"
    /\ ~isProcessing
    /\ ~isPlaying

\* C19: once the response of a newer request has been applied to the
\* Registry, the response of an older request still in flight (a speech
\* submission or a whiteboard prompt) changes neither the narration, nor the
\* drawings, nor the active ids, nor the stored expected answer.
C19_LateResponseIgnored ==
    [][(\/ lastOp' = "wandResponse/late" /\ WandResponse
        \/ requests # <<>> /\ Head(requests).late /\ SpeakResponse)
          => UNCHANGED <<currentTTS, drawings, activeDrawingIds, storedAnswer>>]_vars

C21_CompletesOnce ==
    /\ subtitle.done <= 1
    /\ subtitle.done = 1 => SubTimers = <<>>

\* C22: for every narration text and total duration, the per-segment
\* durations the subtitle engine computes sum to the total duration within
\* rounding error, at most one millisecond per segment.
C22_TimingsSumToTotal ==
    subtitle.segments # <<>> =>
        LET total == TotalDuration(currentTTS, audioDuration)
            sum == SumSeq(subtitle.segmentTimings)
        IN  /\ sum - total <= Len(subtitle.segments)
            /\ total - sum <= Len(subtitle.segments)

\* C23: for every text, the estimate is at least 1000 when the text is not
\* empty, and the estimate of the empty text is 0.
C23_EstimateFloor ==
    lastOp = "estimate" =>
        IF currentTTS = <<>> THEN audioDuration = 0 ELSE audioDuration >= 1000

\* a one-word text, whose 400 ms are below the floor, has been estimated
C23_ShortTextEstimated ==
    /\ lastOp = "estimate"
    /\ currentTTS = <<"w">>
    /\ audioDuration = MINIMUM_DURATION

\* C24: for every text made of whitespace only, the estimator returns 0 as it
\* does for the empty text, without applying the 1000 ms floor.
C24_WhitespaceEstimateZero ==
    (lastOp = "estimate" /\ \A i \in 1..Len(currentTTS) : currentTTS[i] = " ")
        => audioDuration = 0

\* C25: for every non-empty text the estimate is max(1000, 400 * wordCount
\* + 300 * the number of sentence-terminal marks + 150 * the number of
\* commas).
C25_EstimateFormula ==
    (lastOp = "estimate" /\ currentTTS # <<>>) =>
        audioDuration =
            Max2(1000, 400 * WordCount(currentTTS)
                        + 300 * (CountTok(currentTTS, ".") + CountTok(currentTTS, "?"))
                        + 150 * CountTok(currentTTS, ","))

\* C26: the answer check reports correct exactly when the candidate and the
\* string form of correct_value, both trimmed and lower-cased, are equal
\* strings: " 5 " against the number 5 is correct, "5" against 55 is not.
C26_CorrectIffNormalizedEqual ==
    validation.path \in {"form", "chat"} =>
        LET value == ParseItem(validation.problem).correct_value
            text == IF value.isNumber THEN DigitsOf(value.number) ELSE value.string
            fold(t) == [i \in 1..Len(t) |-> IF t[i] = "A" THEN "a" ELSE t[i]]
            strip(t) == SelectSeq(t, LAMBDA tok : tok # " ")
            inner(t) == \A i \in 1..Len(Trim(t)) : Trim(t)[i] # " "
        IN  /\ validation.isCorrect <=> fold(Trim(text)) = fold(Trim(validation.candidate))
            /\ (inner(text) /\ inner(validation.candidate)) =>
                  (validation.isCorrect <=> fold(strip(text)) = fold(strip(validation.candidate)))

\* " 5 " was checked against the numeric correct_value 5 and found correct
C26_PaddedNumberCorrect ==
    /\ validation.path \in {"form", "chat"}
    /\ validation.problem = "n5"
    /\ validation.candidate = <<" ", "5", " ">>
    /\ validation.isCorrect

\* C27: the feedback message of an answer check is feedbackCorrect verbatim
\* when the answer matches, and feedbackIncorrect with the explanation
\* appended when it does not, on the answer form and on the typed chat path.
C27_FeedbackMessage ==
    validation.path \in {"form", "chat"} =>
        LET problem == ParseItem(validation.problem)
        IN  IF validation.isCorrect
            THEN validation.message = problem.feedback_correct
            ELSE validation.message \in
                    {problem.feedback_incorrect \o problem.explanation,
                     problem.feedback_incorrect \o <<" ">> \o problem.explanation}

\* C28: after every processed turn response (a well-formed speech response, a
\* whiteboard prompt answered with status ok) the stored expected answer is
\* that response's final_answer, and there is none when it carries none.
C28_StoredAnswerFollowsResponse ==
    [][\A resp \in Responses :
          /\ (\/ lastOp' = "speakResponse/valid" /\ SpeakResponseOf({resp})
              \/ WandResponseOf({"object"}, {resp}))
                => storedAnswer' = resp.final
          /\ WandResponseOf({"plain"}, {resp}) => storedAnswer' = ""]_vars

\* C29: in every reachable state, isPlaying holds only while the narration
\* audio element is playing: not before playback has started, not after it
\* has ended, and not after a rejected play().
C29_PlayingOnlyWhileSounding == isPlaying => audio.state = "playing"

\* C30: after a manual stop (stopRecording) the playing flag is false,
\* whatever it was before the stop.
C30_StopClearsPlaying == [][ClickStop => ~isPlaying']_vars

\* C31: a drawing that came without an id at position i of the list passed
\* to setDrawings is stored under the id 'auto-id-<i>' (the drawings of type
\* "circle" are those the collaborator sends without an id).
C31_FallbackIdIsAutoId ==
    \A i \in 1..Len(drawings) :
        drawings[i].type = "circle" => drawings[i].id = AutoId(i - 1)

\* C32: activateDrawing(id) with an id that no current drawing has is
\* accepted: no error is raised, and the id, or for an automatic id with a
\* numeric suffix the id of the drawing at that index, is in activeDrawingIds
\* after the call.
C32_UnknownIdAccepted ==
    [][\A id \in RegIdPool :
          (/\ RegActivateDrawingOf({id}, CallerSnaps)
           /\ \A i \in 1..Len(drawings) : drawings[i].id # id)
            => /\ error' = "none"
               /\ \/ Includes(activeDrawingIds', id)
                  \/ /\ ParseSuffix(id) >= 0
                     /\ ParseSuffix(id) < Len(drawings)
                     /\ Includes(activeDrawingIds', drawings[ParseSuffix(id) + 1].id)]_vars

\* C32, its case: "zz", which no drawing ever has, was activated while the
\* Registry held drawings
C32_UnknownIdActivated ==
    /\ lastOp = "activateDrawing"
    /\ drawings # <<>>
    /\ Includes(activeDrawingIds, "zz")
    /\ error = "none"

\* C33: in every reachable state, whatever setDrawings, activateDrawing and
\* resetActiveDrawings calls the orchestrator and the marker timers have
\* made, every id of activeDrawingIds is the id of a current drawing.
C33_ActiveSubsetOfDrawings ==
    \A i \in 1..Len(activeDrawingIds) :
        \E j \in 1..Len(drawings) : drawings[j].id = activeDrawingIds[i]

\* C34: at most one fallback timer is pending at any time, and once the
\* metadata of the current audio has loaded the pending one is the timer
\* armed at that load, which is armed only when auto-recapture was enabled
\* then (until the metadata loads, the timer of the audio being replaced can
\* still be pending).
C34_OneFallbackTimer ==
    /\ Len(PendingFallback) <= 1
    /\ (PendingFallback # <<>> /\ audio.state # "loading")
          => (audio.fallback # 0 /\ PendingFallback[1].id = audio.fallback)

\* C34, its case: the metadata of a response's audio loaded while the
\* greeting was still playing and its fallback timer pending, and the only
\* fallback timer pending now is the one armed at this load
C34_RearmedWhilePending ==
    /\ lastOp = "loadedmetadata"
    /\ audio.handler.kind = "response"
    /\ audio.cleared
    /\ audio.fallback = 2
    /\ Len(PendingFallback) = 1
    /\ PendingFallback[1].id = 2

C38_PayloadOwnChunks ==
    [][(RecorderStopEvents /\ requests' # requests)
          => \A i \in 1..Len(chunksRef') :
                /\ sessions[chunksRef'[i]].recorder = "stopping"
                /\ sessions'[chunksRef'[i]].recorder = "inactive"]_vars

\* C39: neither the 'ended' handler nor the callback of the fallback timer
\* starts a capture while the narration audio still has playing time left,
\* whatever the estimated and the measured durations are.
C39_NoAutoStartWhilePlaying ==
    [][((AudioEnded \/ FallbackTimeout) /\ started' = started + 1)
          => ~(audio'.state = "playing" /\ audio'.left > 0)]_vars

\* C40: once a capture session has been stopped (its recorder is inactive),
\* the tracks of its media stream are eventually stopped and the stream
\* reference no longer names it, also when it recorded no chunk and when its
\* submission fails.
C40_StreamReleased ==
    \A s \in 1..MaxStarts :
        (Len(sessions) >= s /\ sessions[s].recorder = "inactive")
            ~> (Len(sessions) >= s /\ ~sessions[s].stream /\ streamRef # s)

====
